---- MODULE Spec2Model ----
(***************************************************************************)
(* Model of the encrypted user-data vault of Cultured Downloader           *)
(* (src/src/utils/user_data.py): UserData key resolution (__load_key),     *)
(* key persistence (save_key), the envelope file (encrypt_data /           *)
(* decrypt_data), the retry loops (load_key_with_retries /                 *)
(* save_key_with_retries), save_data / load_data and the thread-per-cookie *)
(* batch functions save_cookies / load_cookies, and load_data /            *)
(* load_and_decrypt_data called in the caller's own thread.                *)
(*                                                                         *)
(* Files are records; keys, tokens and nonces are numbered (0 = none).     *)
(* A blocking HTTP call is one step of the calling thread: the request is  *)
(* sent and the answer of the API server (the environment) is chosen.      *)
(* The symmetric cipher (chacha_encrypt, chacha_decrypt,                   *)
(* generate_chacha20_key) and the constants module are imported by         *)
(* user_data.py but are not part of the source tree; they are modelled     *)
(* from the specification (VaultCipher, section 4.1), as is the RSA        *)
(* transport wrapping that user_data.py calls with the keyword names       *)
(* private_key / digest_method.                                            *)
(***************************************************************************)
EXTENDS Naturals, Sequences, FiniteSets, TLC

\* ---------------------------------------------------------------- bounds
MaxThreads == 2
MaxKeys == 5
MaxTokens == 3

\* ------------------------------------------------------ program constants
MAX_RETRIES == 3
KEY_LEN == 32

\* the table of convert_website_to_path: one cookie file per website
Websites == <<"fantia", "pixiv_fanbox">>
Workers == 1..Len(Websites)

\* convert_website_to_path handing out the first path of the table for every
\* website
convert_website_to_first_path(w) == 1

\* convert_website_to_path, lines 425-431: the place in path_table of the
\* path of website w; the two paths are two files
convert_website_to_path(w) == w

\* the cookie a login result carries: "p1" passes CookieSchema, "bad" is a
\* dict that does not (tried for the last website only)
Cookies(w) == IF w = Len(Websites) THEN {"p1", "bad"} ELSE {"p1"}

\* ----------------------------------------------------------- the cipher
\* chacha_encrypt: ciphertext (with its tag) of plaintext p under key k, nonce n
chacha_encrypt(p, k, n) == [b64 |-> TRUE, k |-> k, p |-> p, n |-> n, tag |-> TRUE]

\* the nonce as a field of the envelope
NonceField(n) == [b64 |-> TRUE, k |-> 0, p |-> "", n |-> n, tag |-> FALSE]

\* the field left by open(path, "w") before anything is written
EmptyField == [b64 |-> TRUE, k |-> 0, p |-> "", n |-> 0, tag |-> FALSE]

\* chacha_decrypt: TRUE iff the tag verifies under (key, nonce)
chacha_decrypt_ok(ct, key, nonce) ==
    /\ ct.tag
    /\ ct.k = key
    /\ nonce.n # 0
    /\ ~nonce.tag
    /\ ct.n = nonce.n

\* CookieSchema / validate_schema on the decoded plaintext
validate_schema(p) == p \in {"p1", "p2"}

\* ---------------------------------------------------------------- files
NoKeyFile == [exists |-> FALSE, len |-> 0, k |-> 0]
KeyFileOf(k) == [exists |-> TRUE, len |-> KEY_LEN, k |-> k]
\* a key file one byte short
ShortKeyFile == [exists |-> TRUE, len |-> KEY_LEN - 1, k |-> 0]

NoTokenDoc == [exists |-> FALSE, valid |-> FALSE, t |-> 0]
TokenDocOf(t) == [exists |-> TRUE, valid |-> TRUE, t |-> t]
BadTokenDoc == [exists |-> TRUE, valid |-> FALSE, t |-> 0]

NoEnvelope == [exists |-> FALSE, fields |-> <<>>]
\* encrypt_data joining nonce "." ciphertext instead of ciphertext "." nonce
EnvelopeSwapped(p, k, n) == [exists |-> TRUE, fields |-> <<NonceField(n), chacha_encrypt(p, k, n)>>]
EnvelopeOf(p, k, n) == [exists |-> TRUE, fields |-> <<chacha_encrypt(p, k, n), NonceField(n)>>]
TruncatedEnvelope == [exists |-> TRUE, fields |-> <<EmptyField>>]

\* the configuration file: absent, or holding a client digest preference
\* ("None": the field is null)
NoConfigs == [exists |-> FALSE, client_digest_method |-> "None"]
ConfigsOf(m) == [exists |-> TRUE, client_digest_method |-> m]

VARIABLES
    keyFile,      \* C.SECRET_KEY_PATH
    tokenDoc,     \* C.KEY_ID_TOKEN_JSON_PATH
    envelope,     \* the cookie files, by their place in path_table
    escrow,       \* the API server: token -> key (0 = unknown token)
    nextKey,      \* number of the next key generate_chacha20_key returns
    mgr,          \* save_cookies / load_cookies: position in its loops
    inputs,       \* the arguments of the running batch call
    threads_arr,  \* the threads started by the batch call, in start order
    started,      \* threads the calls made so far have asked for
    th,           \* per thread: position and locals of run()
    lastResp,     \* the last answer of the API server and the thread that got it
    saved,        \* per website: what the last completed encrypt_data was given
    lastLoad,     \* per website: what the caller got from its last load
    configs,      \* C.CONFIG_JSON_FILE_PATH: the client digest preference it holds
    IS_64BITS     \* C.IS_64BITS: the word size of the platform

vars == <<keyFile, tokenDoc, envelope, escrow, nextKey, mgr, inputs, threads_arr, started, th, lastResp, saved, lastLoad, configs, IS_64BITS>>

\* ------------------------------------------------------------- threads
IdleThread ==
    [pc |-> "idle", fn |-> "", cookie |-> "", save_locally |-> FALSE,
     id |-> 0, key |-> 0, tok |-> 0, csrf |-> "none", retry |-> 1,
     keySaved |-> FALSE, result |-> "None", exec |-> "none",
     summ |-> "none", envBefore |-> NoEnvelope,
     pair |-> 0, client_digest_method |-> "none", server_digest_method |-> "none",
     again |-> "none"]

NotSaved == [p |-> "", k |-> 0]

NoInput == [present |-> FALSE, cookie |-> "", save_locally |-> FALSE]

Set(w, r) == [th EXCEPT ![w] = r]

\* response classes of the API server
\* "timeout": httpx.ConnectError / ReadTimeout / ConnectTimeout;
\* "s5xx": any answer that ends in log_api_error (APIServerError);
\* "badjson": a body res.json() cannot decode (json.JSONDecodeError)
Failures == {"timeout", "s5xx", "badjson"}
ServerErrors == {"s5xx"}

\* what a GET /csrf-token can be answered with
Statuses == {200, 404, 500}
Bodies == {"token", "error", "nofield", "notjson"}

\* a value a request can carry: its kind, its number, and the form it is sent
\* in ("raw": as it is, "pem": a public key in PEM, "rsa": RSA-wrapped under
\* the public key of the API server)
NoData == [form |-> "none", kind |-> "", n |-> 0]
KeyIdTokenOf(tok) == [form |-> "raw", kind |-> "key_id_token", n |-> tok]
SecretKeyOf(k) == [form |-> "raw", kind |-> "secret_key", n |-> k]

\* a request carrying the public key of the first pair whatever the object
PublicKeyOfFirstPair(id) == [form |-> "pem", kind |-> "public_key", n |-> 1]

\* generate_rsa_key_pair of __init__ (lines 75-77): the two halves of pair id
PrivateKeyOf(id) == [form |-> "raw", kind |-> "private_key", n |-> id]
PublicKeyOf(id) == [form |-> "pem", kind |-> "public_key", n |-> id]

\* prepare_data_for_transmission sending the data as it is
prepare_data_unwrapped(data) == data

\* prepare_data_for_transmission, lines 212-214: base64(rsa_encrypt(data))
prepare_data_for_transmission(data) == [data EXCEPT !.form = "rsa"]

\* the requests: the path, the csrf token, the client's public key and the
\* one field that carries a secret (the two digest names are left out)
NoReq == [path |-> "", csrf_token |-> "none", client_public_key |-> NoData,
          field |-> "", value |-> NoData]

\* get_csrf_token, line 252: a GET with the base headers
CsrfTokenRequest == [NoReq EXCEPT !.path = "/csrf-token"]

\* __load_key, lines 301-314
GetKeyRequest(t) ==
    [path |-> "/get-key", csrf_token |-> t.csrf,
     client_public_key |-> PublicKeyOf(t.pair),
     field |-> "key_id_token",
     value |-> prepare_data_for_transmission(KeyIdTokenOf(t.tok))]

\* save_key, lines 366-379
SaveKeyRequest(t) ==
    [path |-> "/save-key", csrf_token |-> t.csrf,
     client_public_key |-> PublicKeyOf(t.pair),
     field |-> "secret_key",
     value |-> prepare_data_for_transmission(SecretKeyOf(t.key))]

NoResp == [w |-> 0, resp |-> "none", status |-> 0, body |-> "", req |-> NoReq,
           private_key |-> NoData]
Answer(w, resp) == [w |-> w, resp |-> resp, status |-> 0, body |-> "", req |-> NoReq,
                    private_key |-> NoData]
HandshakeAnswer(w, resp, status, body) ==
    [w |-> w, resp |-> resp, status |-> status, body |-> body, req |-> NoReq,
     private_key |-> NoData]

\* the answer a, with the request it answers kept (wire) or not
Sent(a, req, wire) == IF wire THEN [a EXCEPT !.req = req] ELSE a

\* read_api_response (lines 223-227) and save_key (lines 397-402): the answer
\* to the POST of object t, with the private key rsa_decrypt is given to unwrap
\* the field of its body (kept with the request)
Unwrapped(a, t) ==
    IF a.req # NoReq /\ a.resp \in {"ok", "badwrap"}
    THEN [a EXCEPT !.private_key = PrivateKeyOf(t.pair)]
    ELSE a

\* summary of the answers a thread has received so far
Summ(old, resp) ==
    IF resp = "ok"
    THEN (IF old \in {"none", "allok"} THEN "allok" ELSE "mixed")
    ELSE IF resp \in Failures
    THEN (IF old \in {"none", "allfail"} THEN "allfail" ELSE "mixed")
    ELSE "mixed"

Heard(t, resp) == [t EXCEPT !.summ = Summ(t.summ, resp)]

\* the answer to a POST: the request carried the csrf token and cookies held
Posted(t, resp) == [Heard(t, resp) EXCEPT !.csrf = "none"]


\* ------------------------------------------------ UserData.decrypt_data
\* decrypt_data without the unlink of lines 184-186
decrypt_data_keeps_invalid(f, key) ==
    IF ~f.exists
    THEN [data |-> "None", unlink |-> FALSE]
    ELSE IF Len(f.fields) # 2
    THEN [data |-> "None", unlink |-> TRUE]
    ELSE IF ~f.fields[1].b64 \/ ~f.fields[2].b64
    THEN [data |-> "None", unlink |-> TRUE]
    ELSE IF ~chacha_decrypt_ok(f.fields[1], key, f.fields[2])
    THEN [data |-> "None", unlink |-> TRUE]
    ELSE IF ~validate_schema(f.fields[1].p)
    THEN [data |-> "None", unlink |-> FALSE]
    ELSE [data |-> f.fields[1].p, unlink |-> FALSE]

\* decrypt_data going on although chacha_decrypt raised InvalidTag
decrypt_data_skips_tag(f, key) ==
    IF ~f.exists
    THEN [data |-> "None", unlink |-> FALSE]
    ELSE IF Len(f.fields) # 2
    THEN [data |-> "None", unlink |-> TRUE]
    ELSE IF ~f.fields[1].b64 \/ ~f.fields[2].b64
    THEN [data |-> "None", unlink |-> TRUE]
    ELSE IF ~validate_schema(f.fields[1].p)
    THEN [data |-> "None", unlink |-> TRUE]
    ELSE [data |-> f.fields[1].p, unlink |-> FALSE]

\* decrypt_data removing the file it has read, whatever it held
decrypt_data_unlinks_always(f, key) ==
    IF ~f.exists
    THEN [data |-> "None", unlink |-> FALSE]
    ELSE IF Len(f.fields) # 2
    THEN [data |-> "None", unlink |-> TRUE]
    ELSE IF ~f.fields[1].b64 \/ ~f.fields[2].b64
    THEN [data |-> "None", unlink |-> TRUE]
    ELSE IF ~chacha_decrypt_ok(f.fields[1], key, f.fields[2])
    THEN [data |-> "None", unlink |-> TRUE]
    ELSE IF ~validate_schema(f.fields[1].p)
    THEN [data |-> "None", unlink |-> TRUE]
    ELSE [data |-> f.fields[1].p, unlink |-> TRUE]

\* decrypt_data handing out a payload for a file that does not exist
decrypt_data_payload_when_missing(f, key) ==
    IF ~f.exists
    THEN [data |-> "p2", unlink |-> FALSE]
    ELSE IF Len(f.fields) # 2
    THEN [data |-> "None", unlink |-> TRUE]
    ELSE IF ~f.fields[1].b64 \/ ~f.fields[2].b64
    THEN [data |-> "None", unlink |-> TRUE]
    ELSE IF ~chacha_decrypt_ok(f.fields[1], key, f.fields[2])
    THEN [data |-> "None", unlink |-> TRUE]
    ELSE IF ~validate_schema(f.fields[1].p)
    THEN [data |-> "None", unlink |-> TRUE]
    ELSE [data |-> f.fields[1].p, unlink |-> FALSE]

\* the outcome of decrypt_data on file content f with the instance key:
\* the data returned ("None" when there is none) and whether the file is unlinked
decrypt_data(f, key) ==
    IF ~f.exists
    THEN [data |-> "None", unlink |-> FALSE]
    ELSE IF Len(f.fields) # 2
    THEN [data |-> "None", unlink |-> TRUE]
    ELSE IF ~f.fields[1].b64 \/ ~f.fields[2].b64
    THEN [data |-> "None", unlink |-> TRUE]
    ELSE IF ~chacha_decrypt_ok(f.fields[1], key, f.fields[2])
    THEN [data |-> "None", unlink |-> TRUE]
    ELSE IF ~validate_schema(f.fields[1].p)
    THEN [data |-> "None", unlink |-> TRUE]
    ELSE [data |-> f.fields[1].p, unlink |-> FALSE]

\* ------------------------------------------------- UserData.__load_key
\* __load_key looking at the token document before the key file
KeyFileAfterToken(f) == f.exists /\ f.len = KEY_LEN /\ ~tokenDoc.exists

\* __load_key taking whatever the key file holds
KeyFileAnyLength(f) == f.exists

\* the test on the local key file: present and exactly 32 bytes
KeyFileUsable(f) == f.exists /\ f.len = KEY_LEN

\* __load_key sending whatever the token document holds, parsed or not
TokenPresent(d) == d.exists

\* the test on the token document: present, JSON, and of the KeyIdToken schema
TokenUsable(d) == d.exists /\ d.valid

\* __init__ dropping the key that __load_key returned
AfterLoadKeyWithoutKey(t, k) ==
    [t EXCEPT !.key = 0, !.retry = 1,
              !.pc = IF t.fn = "load" THEN "decrypt" ELSE "saveKey"]

\* after __load_key returned: __init__ loads the data (load) or keeps it (save)
AfterLoadKey(t, k) ==
    [t EXCEPT !.key = k, !.retry = 1,
              !.pc = IF t.fn = "load" THEN "decrypt" ELSE "saveKey"]

\* run() is over: only result, exec and what the thread object keeps remain
Finished(t) == [t EXCEPT !.pc = "done", !.tok = 0, !.retry = 1]

\* retry loops that catch the httpx errors only
CaughtTransportOnly == {"timeout"}

\* the exceptions the two retry loops catch
Caught == Failures

\* __load_key sending POST /get-key again with the csrf token it has used
LoadRetryKeepsHandshake(t) ==
    IF t.retry = MAX_RETRIES
    THEN Finished([t EXCEPT !.result = IF t.fn = "save" THEN "False" ELSE "None"])
    ELSE IF t.pc = "getKey"
    THEN [t EXCEPT !.retry = @ + 1]
    ELSE [t EXCEPT !.retry = @ + 1, !.pc = "ctor", !.tok = 0]

\* load_key_with_retries comparing the counter with the wrong limit
LoadRetryOffByOne(t) ==
    IF t.retry = MAX_RETRIES + 1
    THEN Finished([t EXCEPT !.result = IF t.fn = "save" THEN "False" ELSE "None"])
    ELSE [t EXCEPT !.retry = @ + 1, !.pc = "ctor", !.tok = 0]

\* load_key_with_retries building the object again without counting the attempt
LoadRetryUncounted(t) == [t EXCEPT !.pc = "ctor", !.tok = 0]

\* load_key_with_retries: a caught exception in attempt t.retry
LoadRetry(t) ==
    IF t.retry = MAX_RETRIES
    THEN Finished([t EXCEPT !.result = IF t.fn = "save" THEN "False" ELSE "None"])
    ELSE [t EXCEPT !.retry = @ + 1, !.pc = "ctor", !.tok = 0]

\* save_data going on to secure_obj.save_data() although the key was not saved
SaveRetryWritesAnyway(t) ==
    IF t.retry = MAX_RETRIES
    THEN [t EXCEPT !.pc = "trunc"]
    ELSE [t EXCEPT !.retry = @ + 1, !.pc = "saveKey"]

\* save_key_with_retries trying again without counting the attempt
SaveRetryUncounted(t) == [t EXCEPT !.pc = "saveKey"]

\* save_key_with_retries: a caught exception in attempt t.retry
SaveRetry(t) ==
    IF t.retry = MAX_RETRIES
    THEN Finished([t EXCEPT !.result = "False"])
    ELSE [t EXCEPT !.retry = @ + 1, !.pc = "saveKey"]

\* the exception a failed request surfaces as
ExceptionOf(resp) ==
    IF resp = "timeout" THEN "httpx.ReadTimeout"
    ELSE IF resp = "badjson" THEN "JSONDecodeError" ELSE "APIServerError"

\* an exception no loop catches: SaveCookieThread.run / LoadCookieThread.run store it
Uncaught(t, e) == Finished([t EXCEPT !.exec = e])

\* load_configs, lines 178-198 of functional.py: the preference the
\* configuration holds (the defaults, without one, for a missing file)
load_configs(c) == IF c.exists THEN c.client_digest_method ELSE "None"

\* __load_client_digest_method choosing by the platform whatever is cached
load_client_digest_method_uncached(c, is64) ==
    LET m == IF is64 THEN "sha512" ELSE "sha256" IN
    [method |-> m, configs |-> ConfigsOf(m)]

\* __load_client_digest_method, lines 94-100: the method returned and the
\* configuration file it leaves
load_client_digest_method(c, is64) ==
    IF load_configs(c) = "None"
    THEN LET m == IF is64 THEN "sha512" ELSE "sha256" IN
         [method |-> m, configs |-> ConfigsOf(m)]
    ELSE [method |-> load_configs(c), configs |-> c]

\* __init__, lines 79-80
server_digest_method(client) == IF client = "sha512" THEN "sha512" ELSE "sha256"

\* generate_rsa_key_pair, line 75: a new pair for every object constructed
generate_rsa_key_pair(t) == (t.id - 1) * MAX_RETRIES + t.retry

\* __init__, lines 75-80: the attributes of the new object; kept: whether the
\* thread record keeps them
NewUserData(t, kept) ==
    IF kept
    THEN LET m == load_client_digest_method(configs, IS_64BITS).method IN
         [t EXCEPT !.pair = generate_rsa_key_pair(t),
                   !.client_digest_method = m,
                   !.server_digest_method = server_digest_method(m)]
    ELSE t

\* __init__, lines 75-86, and __load_key, lines 271-277: the attributes of the
\* object, then the local key file
Construct(w, kept) ==
    /\ th[w].pc = "ctor"
    /\ configs' = load_client_digest_method(configs, IS_64BITS).configs
    /\ IF KeyFileUsable(keyFile)
       THEN th' = Set(w, AfterLoadKey(NewUserData(th[w], kept), keyFile.k))
       ELSE th' = Set(w, [NewUserData(th[w], kept) EXCEPT !.pc = "readTok"])
    /\ UNCHANGED <<keyFile, tokenDoc, envelope, escrow, nextKey, mgr, inputs, threads_arr, started, lastResp, saved, lastLoad, IS_64BITS>>

\* the construction; the key pair and the digest methods are not followed
LoadKeyFile(w) == Construct(w, FALSE)

\* the construction; the thread record keeps the key pair and the digest methods
LoadKeyFileObserved(w) == Construct(w, TRUE)

\* __load_key, lines 279-298: the token document, else a fresh key
LoadTokenDoc(w) ==
    /\ th[w].pc = "readTok"
    /\ IF TokenUsable(tokenDoc)
       THEN /\ th' = Set(w, [th[w] EXCEPT !.tok = tokenDoc.t, !.pc = "csrf"])
            /\ UNCHANGED nextKey
       ELSE /\ nextKey <= MaxKeys
            /\ th' = Set(w, AfterLoadKey(th[w], nextKey))
            /\ nextKey' = nextKey + 1
    /\ UNCHANGED <<keyFile, tokenDoc, envelope, escrow, mgr, inputs, threads_arr, started, lastResp, saved, lastLoad, configs, IS_64BITS>>

\* get_csrf_token without the test of the status
get_csrf_token_any_status(status, body) ==
    IF body = "notjson" THEN "badjson"
    ELSE IF body = "error" THEN "s5xx"
    ELSE IF body # "token" THEN "s5xx"
    ELSE "ok"

\* get_csrf_token, lines 257-267: what becomes of an answer with this status
\* and body ("ok": the pair (csrf_token, cookies) is returned)
get_csrf_token(status, body) ==
    IF status \notin {200, 404} THEN "s5xx"
    ELSE IF body = "notjson" THEN "badjson"
    ELSE IF body = "error" THEN "s5xx"
    ELSE IF body # "token" THEN "s5xx"
    ELSE "ok"

\* the answers to GET /csrf-token: no answer in time, or a status and a body
HandshakeAnswers(w) ==
    {HandshakeAnswer(w, "timeout", 0, "")} \cup
    {HandshakeAnswer(w, get_csrf_token(st, b), st, b) : st \in Statuses, b \in Bodies}

\* the same answers, told apart only by what get_csrf_token makes of them
HandshakeOutcomes(w) == {Answer(w, a.resp) : a \in HandshakeAnswers(w)}

\* get_csrf_token, called by __load_key (line 300) and save_key (line 365),
\* answered by one of answers
Handshake(w, answers, wire) ==
    /\ th[w].pc \in {"csrf", "csrfS"}
    /\ \E a \in answers :
         LET resp == a.resp
             t == Heard(th[w], resp) IN
         /\ lastResp' = Sent(a, CsrfTokenRequest, wire)
         /\ th' = Set(w, IF resp = "ok"
                         THEN [t EXCEPT !.csrf = "fresh",
                                        !.pc = IF th[w].pc = "csrf" THEN "getKey" ELSE "postKey"]
                         ELSE IF resp \in Caught
                         THEN (IF th[w].pc = "csrf" THEN LoadRetry(t) ELSE SaveRetry(t))
                         ELSE Uncaught(t, ExceptionOf(resp)))
    /\ UNCHANGED <<keyFile, tokenDoc, envelope, escrow, nextKey, mgr, inputs, threads_arr, started, saved, lastLoad, configs, IS_64BITS>>

\* the handshake; lastResp keeps what became of the answer
GetCsrfToken(w) == Handshake(w, HandshakeOutcomes(w), FALSE)

\* the handshake; lastResp keeps the status and the body of the answer as well
GetCsrfTokenObserved(w) == Handshake(w, HandshakeAnswers(w), FALSE)

\* the handshake; lastResp keeps the request
GetCsrfTokenSent(w) == Handshake(w, HandshakeOutcomes(w), TRUE)

\* the answers the server can give to POST /get-key for token tk
GetKeyAnswers(tk) ==
    Failures \cup (IF escrow[tk] = 0 THEN {"s404"} ELSE {"ok", "badwrap"})

\* what a POST /get-key can be answered with
GetKeyStatuses == {200, 400, 404, 500}
GetKeyBodies == {"key", "badkey", "error", "nofield", "notjson"}

\* __load_key taking a 400 answer for a stale token as well
load_key_response_400_stale(status, body) ==
    IF status \notin {200, 404, 400} THEN "s5xx"
    ELSE IF status \in {404, 400} THEN "s404"
    ELSE IF body = "notjson" THEN "badjson"
    ELSE IF body = "error" THEN "s5xx"
    ELSE IF body \notin {"key", "badkey"} THEN "s5xx"
    ELSE IF body = "badkey" THEN "badwrap"
    ELSE "ok"

\* __load_key, lines 322-338: what becomes of an answer with this status and
\* body ("ok": the key is returned, "s404": the token is taken for stale,
\* "badwrap": read_api_response cannot unwrap secret_key)
load_key_response(status, body) ==
    IF status \notin {200, 404, 400} THEN "s5xx"
    ELSE IF status = 404 THEN "s404"
    ELSE IF body = "notjson" THEN "badjson"
    ELSE IF body = "error" THEN "s5xx"
    ELSE IF body \notin {"key", "badkey"} THEN "s5xx"
    ELSE IF body = "badkey" THEN "badwrap"
    ELSE "ok"

\* the answers to the POST of thread w, told apart only by what __load_key
\* makes of them
GetKeyOutcomes(w) == {Answer(w, resp) : resp \in GetKeyAnswers(th[w].tok)}

\* the same answers with their status and body: the server answers 404 only
\* for a token it does not know and sends a key only for one it knows
GetKeyAnswersObserved(w) ==
    {a \in {HandshakeAnswer(w, "timeout", 0, "")} \cup
           {HandshakeAnswer(w, load_key_response(st, b), st, b) :
                st \in GetKeyStatuses, b \in GetKeyBodies} :
        a.resp \in GetKeyAnswers(th[w].tok)}

\* __load_key, lines 301-338: POST /get-key and the handling of its answer
GetKey(w, answers, wire) ==
    /\ th[w].pc = "getKey"
    /\ \E a \in answers :
         LET resp == a.resp
             t == Posted(th[w], resp) IN
         /\ lastResp' = Unwrapped(Sent(a, GetKeyRequest(th[w]), wire), th[w])
         /\ CASE resp = "s404" ->
                IF tokenDoc.exists
                THEN /\ nextKey <= MaxKeys
                     /\ tokenDoc' = NoTokenDoc
                     /\ nextKey' = nextKey + 1
                     /\ th' = Set(w, AfterLoadKey(t, nextKey))
                ELSE /\ th' = Set(w, Uncaught(t, "FileNotFoundError"))
                     /\ UNCHANGED <<tokenDoc, nextKey>>
           [] resp = "ok" ->
                /\ th' = Set(w, AfterLoadKey(t, escrow[th[w].tok]))
                /\ UNCHANGED <<tokenDoc, nextKey>>
           [] resp = "badwrap" ->
                /\ th' = Set(w, Uncaught(t, "ValueError"))
                /\ UNCHANGED <<tokenDoc, nextKey>>
           [] OTHER ->
                /\ th' = Set(w, IF resp \in Caught THEN LoadRetry(t)
                                ELSE Uncaught(t, ExceptionOf(resp)))
                /\ UNCHANGED <<tokenDoc, nextKey>>
    /\ UNCHANGED <<keyFile, envelope, escrow, mgr, inputs, threads_arr, started, saved, lastLoad, configs, IS_64BITS>>

\* POST /get-key; lastResp keeps what became of the answer
PostGetKey(w) == GetKey(w, GetKeyOutcomes(w), FALSE)

\* POST /get-key; lastResp keeps the request, and the status and the body of
\* the answer
PostGetKeyObserved(w) == GetKey(w, GetKeyAnswersObserved(w), TRUE)

\* __init__ line 88 with data None, then load_data returns secure_obj.data;
\* denials: whether the file-system refuses the unlink (PermissionError)
Decrypt(w, denials) ==
    /\ th[w].pc = "decrypt"
    /\ LET r == decrypt_data(envelope[convert_website_to_path(w)], th[w].key) IN
         \E denied \in denials :
            IF r.unlink /\ denied
            THEN /\ th' = Set(w, Uncaught(th[w], "PermissionError"))
                 /\ UNCHANGED <<envelope, saved>>
            ELSE /\ th' = Set(w, Finished([th[w] EXCEPT !.result = r.data]))
                 /\ envelope' = IF r.unlink THEN [envelope EXCEPT ![convert_website_to_path(w)] = NoEnvelope] ELSE envelope
                 /\ saved' = IF r.unlink THEN [saved EXCEPT ![w] = NotSaved] ELSE saved
    /\ UNCHANGED <<keyFile, tokenDoc, escrow, nextKey, mgr, inputs, threads_arr, started, lastResp, lastLoad, configs, IS_64BITS>>

\* the load on a file-system that lets the cookie file be removed
DecryptData(w) == Decrypt(w, {FALSE})

\* the load on a file-system that may refuse to remove the cookie file
DecryptDataDenied(w) == Decrypt(w, BOOLEAN)

\* POST /get-key; lastResp keeps the request and what became of the answer
PostGetKeySent(w) == GetKey(w, GetKeyOutcomes(w), TRUE)

\* --------------------------------------------------- UserData.save_key
\* save_key without the test of the token document (lines 357-358)
AlreadySavedKeyFileOnly(k) == keyFile.exists /\ keyFile.len = KEY_LEN /\ keyFile.k = k

\* save_key without its two early returns
AlreadySavedNever(k) == FALSE

\* save_key, lines 351-358: the key counts as already saved
AlreadySaved(k) ==
    \/ keyFile.exists /\ keyFile.len = KEY_LEN /\ keyFile.k = k
    \/ tokenDoc.exists

\* save_key returned: save_key_with_retries returns True and save_data goes on
\* to secure_obj.save_data()
KeySaved(t) == [t EXCEPT !.pc = "trunc", !.keySaved = TRUE]

\* save_key, lines 350-363
SaveKey(w) ==
    /\ th[w].pc = "saveKey"
    /\ IF AlreadySaved(th[w].key)
       THEN /\ th' = Set(w, KeySaved(th[w]))
            /\ UNCHANGED keyFile
       ELSE IF th[w].save_locally
       THEN /\ keyFile' = KeyFileOf(th[w].key)
            /\ th' = Set(w, KeySaved(th[w]))
       ELSE /\ th' = Set(w, [th[w] EXCEPT !.pc = "csrfS"])
            /\ UNCHANGED keyFile
    /\ UNCHANGED <<tokenDoc, envelope, escrow, nextKey, mgr, inputs, threads_arr, started, lastResp, saved, lastLoad, configs, IS_64BITS>>

\* save_key called once more on the object whose save_key has returned, with
\* either value of save_locally (lines 350-365): "returned" by an early
\* return, "wrote" the key file, or "sent" GET /csrf-token on its way to the POST
SaveKeyAgain(w) ==
    /\ th[w].pc = "trunc"
    /\ th[w].keySaved
    /\ th[w].again = "none"
    /\ \E save_locally \in BOOLEAN :
         IF AlreadySaved(th[w].key)
         THEN /\ th' = Set(w, [th[w] EXCEPT !.again = "returned"])
              /\ UNCHANGED keyFile
         ELSE IF save_locally
         THEN /\ keyFile' = KeyFileOf(th[w].key)
              /\ th' = Set(w, [th[w] EXCEPT !.again = "wrote"])
         ELSE /\ th' = Set(w, [th[w] EXCEPT !.again = "sent", !.pc = "csrfS"])
              /\ UNCHANGED keyFile
    /\ UNCHANGED <<tokenDoc, envelope, escrow, nextKey, mgr, inputs, threads_arr, started, lastResp, saved, lastLoad, configs, IS_64BITS>>

\* the token the server issues next (token 1 is the one of the initial document)
NextTok == 2 + Cardinality({t \in 2..MaxTokens : escrow[t] # 0})

\* the answers the server can give to POST /save-key
SaveKeyAnswers == Failures \cup (IF NextTok <= MaxTokens THEN {"ok", "badwrap"} ELSE {})

\* save_key, lines 366-404: POST /save-key, then the token document is written
PostKey(w, wire) ==
    /\ th[w].pc = "postKey"
    /\ \E resp \in SaveKeyAnswers :
         LET t == Posted(th[w], resp) IN
         /\ lastResp' = Unwrapped(Sent(Answer(w, resp), SaveKeyRequest(th[w]), wire), th[w])
         /\ CASE resp = "ok" ->
                /\ escrow' = [escrow EXCEPT ![NextTok] = th[w].key]
                /\ tokenDoc' = TokenDocOf(NextTok)
                /\ th' = Set(w, KeySaved(t))
           [] resp = "badwrap" ->
                /\ th' = Set(w, Uncaught(t, "ValueError"))
                /\ UNCHANGED <<escrow, tokenDoc>>
           [] OTHER ->
                /\ th' = Set(w, IF resp \in Caught THEN SaveRetry(t)
                                ELSE Uncaught(t, ExceptionOf(resp)))
                /\ UNCHANGED <<escrow, tokenDoc>>
    /\ UNCHANGED <<keyFile, envelope, nextKey, mgr, inputs, threads_arr, started, saved, lastLoad, configs, IS_64BITS>>

\* POST /save-key; lastResp keeps what became of the answer
PostSaveKey(w) == PostKey(w, FALSE)

\* POST /save-key; lastResp keeps the request
PostSaveKeyObserved(w) == PostKey(w, TRUE)

\* ----------------------------------------------- UserData.encrypt_data
\* open(path, "w"): the file exists and is empty;
\* denials: whether the file-system refuses the open (PermissionError)
Open(w, denials) ==
    /\ th[w].pc = "trunc"
    /\ \E denied \in denials :
         IF denied
         THEN /\ th' = Set(w, Uncaught(th[w], "PermissionError"))
              /\ UNCHANGED <<envelope, saved>>
         ELSE /\ envelope' = [envelope EXCEPT ![convert_website_to_path(w)] = TruncatedEnvelope]
              /\ th' = Set(w, [th[w] EXCEPT !.pc = "write"])
              /\ saved' = [saved EXCEPT ![w] = NotSaved]
    /\ UNCHANGED <<keyFile, tokenDoc, escrow, nextKey, mgr, inputs, threads_arr, started, lastResp, lastLoad, configs, IS_64BITS>>

\* the save on a file-system that lets the cookie file be written
Truncate(w) == Open(w, {FALSE})

\* the save on a file-system that may refuse to open the cookie file for writing
TruncateDenied(w) == Open(w, BOOLEAN)

\* the nonce chacha_encrypt draws: new for every encryption (nonce 1 is the
\* one of the envelopes present at the start)
FreshNonce(t) == t.id + 1

\* f.write of base64(ciphertext) "." base64(nonce); save_data returns True
WriteEnvelope(w) ==
    /\ th[w].pc = "write"
    /\ envelope' = [envelope EXCEPT ![convert_website_to_path(w)] = EnvelopeOf(th[w].cookie, th[w].key, FreshNonce(th[w]))]
    /\ th' = Set(w, Finished([th[w] EXCEPT !.result = "True"]))
    /\ saved' = [saved EXCEPT ![w] = [p |-> th[w].cookie, k |-> th[w].key]]
    /\ UNCHANGED <<keyFile, tokenDoc, escrow, nextKey, mgr, inputs, threads_arr, started, lastResp, lastLoad, configs, IS_64BITS>>


\* ------------------------------------------- save_cookies / load_cookies
SaveInputs(w) == {NoInput} \cup [present : {TRUE}, cookie : Cookies(w), save_locally : BOOLEAN]
LoadInputs == {NoInput, [present |-> TRUE, cookie |-> "", save_locally |-> FALSE]}

\* the entries of a call that name a cookie
NPresent(ins) == Cardinality({w \in Workers : ins[w].present})

AllThreadsOver == \A w \in Workers : th[w].pc \in {"idle", "done"}

\* what the caller holds for website w once the call made last is over: the
\* cookie load_cookies returned for it ("None": no cookie), nothing it can
\* rely on after a save, after an exception or after a load that could not
\* resolve its key ("unset")
Returned(w) ==
    IF ~inputs[w].present THEN lastLoad[w]
    ELSE IF mgr.fn = "save_cookies" \/ mgr.st = "raised" THEN "unset"
    ELSE IF th[w].pc = "idle" THEN "None"
    ELSE IF th[w].key = 0 \/ th[w].exec # "none" THEN "unset"
    ELSE th[w].result

\* the caller calls save_cookies(*login_results) or load_cookies(*websites)
Call ==
    /\ mgr.st \in {"idle", "returned", "raised"}
    /\ AllThreadsOver
    /\ \E fn \in {"save_cookies", "load_cookies"} :
         /\ mgr' = [st |-> "start", fn |-> fn, i |-> 1]
         /\ inputs' \in [Workers -> UNION {SaveInputs(w) : w \in Workers} \cup LoadInputs]
         /\ \A w \in Workers :
               inputs'[w] \in IF fn = "save_cookies" THEN SaveInputs(w) ELSE LoadInputs
    /\ started' = started + NPresent(inputs')
    /\ started' <= MaxThreads
    /\ threads_arr' = <<>>
    /\ th' = [w \in Workers |-> IdleThread]
    /\ lastResp' = NoResp
    /\ lastLoad' = [w \in Workers |-> Returned(w)]
    /\ UNCHANGED <<keyFile, tokenDoc, envelope, escrow, nextKey, saved, configs, IS_64BITS>>

\* load_cookies starting a thread for every website it is given
EligibleWithoutFile(fn, i) == inputs[i].present

\* save_cookies line 775 / load_cookies line 746: is a thread started for entry i
Eligible(fn, i) ==
    IF fn = "save_cookies"
    THEN inputs[i].present
    ELSE inputs[i].present /\ envelope[convert_website_to_path(i)].exists

\* one round of the first loop: thread.start() and threads_arr.append(thread)
StartThread ==
    /\ mgr.st = "start"
    /\ LET i == mgr.i IN
         /\ IF Eligible(mgr.fn, i)
            THEN /\ th' = Set(i, [IdleThread EXCEPT
                                    !.pc = "ctor",
                                    !.id = started - NPresent(inputs) + Len(threads_arr) + 1,
                                    !.fn = IF mgr.fn = "save_cookies" THEN "save" ELSE "load",
                                    !.cookie = inputs[i].cookie,
                                    !.save_locally = inputs[i].save_locally,
                                    !.envBefore = envelope[convert_website_to_path(i)]])
                 /\ threads_arr' = Append(threads_arr, i)
            ELSE UNCHANGED <<th, threads_arr>>
         /\ mgr' = IF i = Len(Websites)
                   THEN [mgr EXCEPT !.st = "join", !.i = 1]
                   ELSE [mgr EXCEPT !.i = i + 1]
    /\ UNCHANGED <<keyFile, tokenDoc, envelope, escrow, nextKey, inputs, started, lastResp, saved, lastLoad, configs, IS_64BITS>>

\* a join that returns at once, whether or not run() is over
JoinWithoutWaiting ==
    /\ mgr.st = "join"
    /\ mgr.i <= Len(threads_arr)
    /\ mgr' = IF th[threads_arr[mgr.i]].exec # "none"
              THEN [mgr EXCEPT !.st = "raised"]
              ELSE [mgr EXCEPT !.i = @ + 1]
    /\ UNCHANGED <<keyFile, tokenDoc, envelope, escrow, nextKey, inputs, threads_arr, started, th, lastResp, saved, lastLoad, configs, IS_64BITS>>

\* BaseThread.join: wait for the thread, raise what it stored
Join ==
    /\ mgr.st = "join"
    /\ mgr.i <= Len(threads_arr)
    /\ th[threads_arr[mgr.i]].pc = "done"
    /\ mgr' = IF th[threads_arr[mgr.i]].exec # "none"
              THEN [mgr EXCEPT !.st = "raised"]
              ELSE [mgr EXCEPT !.i = @ + 1]
    /\ UNCHANGED <<keyFile, tokenDoc, envelope, escrow, nextKey, inputs, threads_arr, started, th, lastResp, saved, lastLoad, configs, IS_64BITS>>

\* every join returned: the results are reported and the call returns
Return ==
    /\ mgr.st = "join"
    /\ mgr.i > Len(threads_arr)
    /\ mgr' = [mgr EXCEPT !.st = "returned"]
    /\ UNCHANGED <<keyFile, tokenDoc, envelope, escrow, nextKey, inputs, threads_arr, started, th, lastResp, saved, lastLoad, configs, IS_64BITS>>

\* ------------------------------- load_data / load_and_decrypt_data, unthreaded
\* the arguments of a call for the data file of one website
OneInput(w) ==
    [v \in Workers |-> IF v = w THEN [present |-> TRUE, cookie |-> "", save_locally |-> FALSE]
                       ELSE NoInput]

\* the caller's own thread enters load_data(obj, website=w) at line 645
InLoadData(w) ==
    [v \in Workers |->
        IF v = w
        THEN [IdleThread EXCEPT !.pc = "ctor", !.fn = "load", !.id = started + 1,
                                !.envBefore = envelope[convert_website_to_path(w)]]
        ELSE IdleThread]

\* load_and_decrypt_data that never takes the file for missing
DataPathMissingNever(f) == FALSE

\* load_and_decrypt_data, line 835: the data file does not exist
DataPathMissing(f) == ~f.exists

\* load_and_decrypt_data, lines 835-838: False for a missing file, else load_data
LoadAndDecryptData ==
    /\ mgr.st \in {"idle", "returned", "raised"}
    /\ AllThreadsOver
    /\ started < MaxThreads
    /\ \E w \in Workers :
         /\ inputs' = OneInput(w)
         /\ IF DataPathMissing(envelope[convert_website_to_path(w)])
            THEN /\ mgr' = [st |-> "returned", fn |-> "load_and_decrypt_data", i |-> w]
                 /\ th' = [v \in Workers |-> IdleThread]
                 /\ lastLoad' = [lastLoad EXCEPT ![w] = "False"]
            ELSE /\ mgr' = [st |-> "load_data", fn |-> "load_and_decrypt_data", i |-> w]
                 /\ th' = InLoadData(w)
                 /\ lastLoad' = [lastLoad EXCEPT ![w] = "unset"]
    /\ started' = started + 1
    /\ threads_arr' = <<>>
    /\ lastResp' = NoResp
    /\ UNCHANGED <<keyFile, tokenDoc, envelope, escrow, nextKey, saved, configs, IS_64BITS>>

\* load_data(obj, website=w) called by the caller itself, lines 645-649
LoadData ==
    /\ mgr.st \in {"idle", "returned", "raised"}
    /\ AllThreadsOver
    /\ started < MaxThreads
    /\ \E w \in Workers :
         /\ inputs' = OneInput(w)
         /\ mgr' = [st |-> "load_data", fn |-> "load_data", i |-> w]
         /\ th' = InLoadData(w)
         /\ lastLoad' = [lastLoad EXCEPT ![w] = "unset"]
    /\ started' = started + 1
    /\ threads_arr' = <<>>
    /\ lastResp' = NoResp
    /\ UNCHANGED <<keyFile, tokenDoc, envelope, escrow, nextKey, saved, configs, IS_64BITS>>

\* load_data is over: it raised, or it returned and load_and_decrypt_data
\* (lines 839-841) hands on None or the data
LoadDataReturns ==
    /\ mgr.st = "load_data"
    /\ th[mgr.i].pc = "done"
    /\ IF th[mgr.i].exec # "none"
       THEN /\ mgr' = [mgr EXCEPT !.st = "raised"]
            /\ UNCHANGED lastLoad
       ELSE /\ mgr' = [mgr EXCEPT !.st = "returned"]
            /\ lastLoad' = [lastLoad EXCEPT ![mgr.i] = th[mgr.i].result]
    /\ UNCHANGED <<keyFile, tokenDoc, envelope, escrow, nextKey, inputs, threads_arr, started, th, lastResp, saved, configs, IS_64BITS>>

\* save_data(obj, save_key_locally, website=w, cookie_data=c) called by the
\* caller itself, as save_and_encrypt_data does (line 821)
SaveData ==
    /\ mgr.st \in {"idle", "returned", "raised"}
    /\ AllThreadsOver
    /\ started < MaxThreads
    /\ \E w \in Workers : \E c \in Cookies(w) : \E b \in BOOLEAN :
         /\ inputs' = [v \in Workers |->
                          IF v = w THEN [present |-> TRUE, cookie |-> c, save_locally |-> b]
                          ELSE NoInput]
         /\ mgr' = [st |-> "save_data", fn |-> "save_data", i |-> w]
         /\ th' = [v \in Workers |->
                      IF v = w
                      THEN [IdleThread EXCEPT !.pc = "ctor", !.fn = "save", !.id = started + 1,
                                              !.cookie = c, !.save_locally = b,
                                              !.envBefore = envelope[convert_website_to_path(w)]]
                      ELSE IdleThread]
         /\ lastLoad' = [lastLoad EXCEPT ![w] = "unset"]
    /\ started' = started + 1
    /\ threads_arr' = <<>>
    /\ lastResp' = NoResp
    /\ UNCHANGED <<keyFile, tokenDoc, envelope, escrow, nextKey, saved, configs, IS_64BITS>>

\* save_data is over: it raised, or it returned True or False (lines 619-627)
SaveDataReturns ==
    /\ mgr.st = "save_data"
    /\ th[mgr.i].pc = "done"
    /\ mgr' = IF th[mgr.i].exec # "none"
              THEN [mgr EXCEPT !.st = "raised"]
              ELSE [mgr EXCEPT !.st = "returned"]
    /\ UNCHANGED <<keyFile, tokenDoc, envelope, escrow, nextKey, inputs, threads_arr, started, th, lastResp, saved, lastLoad, configs, IS_64BITS>>

\* ------------------------------------------------------- specification
InitKeyFiles == {NoKeyFile, ShortKeyFile, KeyFileOf(1)}
InitTokenDocs == {NoTokenDoc, BadTokenDoc, TokenDocOf(1)}
InitEnvelopes == {NoEnvelope, EnvelopeOf("p2", 1, 1)}

InitProgram ==
    /\ nextKey = 2
    /\ mgr = [st |-> "idle", fn |-> "", i |-> 1]
    /\ inputs = [w \in Workers |-> NoInput]
    /\ threads_arr = <<>>
    /\ started = 0
    /\ th = [w \in Workers |-> IdleThread]
    /\ lastResp = NoResp
    /\ saved = [w \in Workers |-> NotSaved]
    /\ lastLoad = [w \in Workers |-> "unset"]
    /\ configs = ConfigsOf("sha512")
    /\ IS_64BITS = TRUE

Init ==
    /\ keyFile \in InitKeyFiles
    /\ tokenDoc \in InitTokenDocs
    /\ envelope \in [Workers -> InitEnvelopes]
    /\ escrow \in {[t \in 1..MaxTokens |-> IF t = 1 THEN k ELSE 0] : k \in {0, 1}}
    /\ (escrow[1] = 0) => tokenDoc = TokenDocOf(1)
    /\ InitProgram

Step(w) ==
    \/ LoadKeyFile(w)
    \/ LoadTokenDoc(w)
    \/ GetCsrfToken(w)
    \/ PostGetKey(w)
    \/ DecryptData(w)
    \/ SaveKey(w)
    \/ PostSaveKey(w)
    \/ Truncate(w)
    \/ WriteEnvelope(w)

Next ==
    \/ Call
    \/ StartThread
    \/ Join
    \/ Return
    \/ \E w \in Workers : Step(w)

Spec == Init /\ [][Next]_vars

\* the same program with the answers to GET /csrf-token observed in full
InitHandshake ==
    /\ keyFile = NoKeyFile
    /\ tokenDoc \in {NoTokenDoc, TokenDocOf(1)}
    /\ envelope = [w \in Workers |-> EnvelopeOf("p2", 1, 1)]
    /\ escrow = [t \in 1..MaxTokens |-> IF t = 1 THEN 1 ELSE 0]
    /\ InitProgram

StepHandshake(w) ==
    \/ LoadKeyFile(w)
    \/ LoadTokenDoc(w)
    \/ GetCsrfTokenObserved(w)
    \/ PostGetKey(w)
    \/ DecryptData(w)
    \/ SaveKey(w)
    \/ PostSaveKey(w)
    \/ Truncate(w)
    \/ WriteEnvelope(w)

NextHandshake ==
    \/ Call
    \/ StartThread
    \/ Join
    \/ Return
    \/ \E w \in Workers : StepHandshake(w)

SpecHandshake == InitHandshake /\ [][NextHandshake]_vars

\* the program started with neither the key file nor the token document
InitFresh ==
    /\ keyFile = NoKeyFile
    /\ tokenDoc = NoTokenDoc
    /\ envelope \in [Workers -> InitEnvelopes]
    /\ escrow = [t \in 1..MaxTokens |-> 0]
    /\ InitProgram

SpecFresh == InitFresh /\ [][Next]_vars

\* every started thread keeps running (a request is given up after 30 s);
\* the key is with the API server, lost by the server, or not established yet
InitFair ==
    /\ keyFile = NoKeyFile
    /\ tokenDoc \in {NoTokenDoc, TokenDocOf(1)}
    /\ envelope = [w \in Workers |-> EnvelopeOf("p2", 1, 1)]
    /\ escrow \in {[t \in 1..MaxTokens |-> IF t = 1 THEN k ELSE 0] : k \in {0, 1}}
    /\ (escrow[1] = 0) => tokenDoc = TokenDocOf(1)
    /\ InitProgram

SpecFair == InitFair /\ [][Next]_vars /\ \A w \in Workers : WF_vars(Step(w))

\* the envelope files a load can meet: also malformed, undecodable, tampered,
\* written under another key, or holding data that fails the schema
BadBase64 == [b64 |-> FALSE, k |-> 0, p |-> "", n |-> 0, tag |-> FALSE]
Tampered(ct) == [ct EXCEPT !.tag = FALSE]
OddEnvelopes ==
    { [exists |-> TRUE, fields |-> <<chacha_encrypt("p2", 1, 1)>>],
      [exists |-> TRUE, fields |-> <<chacha_encrypt("p2", 1, 1), NonceField(1), NonceField(1)>>],
      [exists |-> TRUE, fields |-> <<BadBase64, NonceField(1)>>],
      [exists |-> TRUE, fields |-> <<chacha_encrypt("p2", 1, 1), BadBase64>>],
      [exists |-> TRUE, fields |-> <<Tampered(chacha_encrypt("p2", 1, 1)), NonceField(1)>>],
      [exists |-> TRUE, fields |-> <<chacha_encrypt("p2", 1, 1), NonceField(MaxThreads + 2)>>],
      [exists |-> TRUE, fields |-> <<chacha_encrypt("p2", 1, 1), EmptyField>>],
      EnvelopeOf("p2", MaxKeys + 1, 1),
      EnvelopeOf("bad", 1, 1),
      TruncatedEnvelope }

InitVault ==
    /\ keyFile \in {NoKeyFile, KeyFileOf(1)}
    /\ tokenDoc = NoTokenDoc
    /\ escrow = [t \in 1..MaxTokens |-> IF t = 1 THEN 1 ELSE 0]
    /\ envelope \in [Workers -> InitEnvelopes \cup OddEnvelopes]
    /\ envelope[2] \in InitEnvelopes
    /\ InitProgram

SpecVault == InitVault /\ [][Next]_vars

\* the program loading one data file at a time in the caller's own thread
InitOne ==
    /\ keyFile \in InitKeyFiles
    /\ tokenDoc \in InitTokenDocs
    /\ escrow \in {[t \in 1..MaxTokens |-> IF t = 1 THEN k ELSE 0] : k \in {0, 1}}
    /\ (escrow[1] = 0) => tokenDoc = TokenDocOf(1)
    /\ envelope \in [Workers -> InitEnvelopes \cup OddEnvelopes]
    /\ envelope[2] \in InitEnvelopes
    /\ InitProgram

StepOne(w) ==
    \/ LoadKeyFile(w)
    \/ LoadTokenDoc(w)
    \/ GetCsrfToken(w)
    \/ PostGetKey(w)
    \/ DecryptData(w)

NextOne ==
    \/ LoadAndDecryptData
    \/ LoadData
    \/ LoadDataReturns
    \/ \E w \in Workers : StepOne(w)

SpecOne == InitOne /\ [][NextOne]_vars

\* the program on a file-system that may refuse to remove or to write a
\* cookie file; the key is in the key file
InitDenied ==
    /\ keyFile = KeyFileOf(1)
    /\ tokenDoc = NoTokenDoc
    /\ escrow = [t \in 1..MaxTokens |-> 0]
    /\ envelope \in [Workers -> InitEnvelopes \cup {EnvelopeOf("bad", 1, 1), TruncatedEnvelope}]
    /\ InitProgram

StepDenied(w) ==
    \/ LoadKeyFile(w)
    \/ DecryptDataDenied(w)
    \/ SaveKey(w)
    \/ TruncateDenied(w)
    \/ WriteEnvelope(w)

NextDenied ==
    \/ Call
    \/ StartThread
    \/ Join
    \/ Return
    \/ \E w \in Workers : StepDenied(w)

SpecDenied == InitDenied /\ [][NextDenied]_vars

\* the same program with the requests to the API server, and the answers to
\* POST /get-key, observed in full
InitEscrow ==
    /\ keyFile \in {NoKeyFile, KeyFileOf(1)}
    /\ tokenDoc \in {NoTokenDoc, TokenDocOf(1)}
    /\ envelope = [w \in Workers |-> EnvelopeOf("p2", 1, 1)]
    /\ escrow \in {[t \in 1..MaxTokens |-> IF t = 1 THEN k ELSE 0] : k \in {0, 1}}
    /\ (escrow[1] = 0) => tokenDoc = TokenDocOf(1)
    /\ InitProgram

StepEscrow(w) ==
    \/ LoadKeyFile(w)
    \/ LoadTokenDoc(w)
    \/ GetCsrfTokenSent(w)
    \/ PostGetKeyObserved(w)
    \/ DecryptData(w)
    \/ SaveKey(w)
    \/ PostSaveKeyObserved(w)
    \/ Truncate(w)
    \/ WriteEnvelope(w)

NextEscrow ==
    \/ Call
    \/ StartThread
    \/ Join
    \/ Return
    \/ \E w \in Workers : StepEscrow(w)

SpecEscrow == InitEscrow /\ [][NextEscrow]_vars

\* the program started with no usable key file and any token document
InitToken ==
    /\ keyFile \in {NoKeyFile, ShortKeyFile}
    /\ tokenDoc \in InitTokenDocs
    /\ envelope = [w \in Workers |-> EnvelopeOf("p2", 1, 1)]
    /\ escrow \in {[t \in 1..MaxTokens |-> IF t = 1 THEN k ELSE 0] : k \in {0, 1}}
    /\ (escrow[1] = 0) => tokenDoc = TokenDocOf(1)
    /\ InitProgram

SpecToken == InitToken /\ [][Next]_vars


\* the program with any cached digest preference on either platform; the key
\* is in the key file
InitDigest ==
    /\ keyFile = KeyFileOf(1)
    /\ tokenDoc = NoTokenDoc
    /\ envelope \in [Workers -> InitEnvelopes]
    /\ escrow = [t \in 1..MaxTokens |-> 0]
    /\ nextKey = 2
    /\ mgr = [st |-> "idle", fn |-> "", i |-> 1]
    /\ inputs = [w \in Workers |-> NoInput]
    /\ threads_arr = <<>>
    /\ started = 0
    /\ th = [w \in Workers |-> IdleThread]
    /\ lastResp = NoResp
    /\ saved = [w \in Workers |-> NotSaved]
    /\ lastLoad = [w \in Workers |-> "unset"]
    /\ configs \in {NoConfigs, ConfigsOf("None"), ConfigsOf("sha256"), ConfigsOf("sha512")}
    /\ IS_64BITS \in BOOLEAN

StepDigest(w) ==
    \/ LoadKeyFileObserved(w)
    \/ DecryptData(w)
    \/ SaveKey(w)
    \/ Truncate(w)
    \/ WriteEnvelope(w)

NextDigest ==
    \/ Call
    \/ StartThread
    \/ Join
    \/ Return
    \/ \E w \in Workers : StepDigest(w)

SpecDigest == InitDigest /\ [][NextDigest]_vars

\* the same program with the key pair of every object followed: no key file,
\* the key with the API server or not established yet
InitPair ==
    /\ keyFile = NoKeyFile
    /\ tokenDoc \in {NoTokenDoc, TokenDocOf(1)}
    /\ envelope = [w \in Workers |-> EnvelopeOf("p2", 1, 1)]
    /\ escrow \in {[t \in 1..MaxTokens |-> IF t = 1 THEN k ELSE 0] : k \in {0, 1}}
    /\ (escrow[1] = 0) => tokenDoc = TokenDocOf(1)
    /\ InitProgram

StepPair(w) ==
    \/ LoadKeyFileObserved(w)
    \/ LoadTokenDoc(w)
    \/ GetCsrfTokenSent(w)
    \/ PostGetKeySent(w)
    \/ DecryptData(w)
    \/ SaveKey(w)
    \/ PostSaveKeyObserved(w)
    \/ Truncate(w)
    \/ WriteEnvelope(w)

NextPair ==
    \/ Call
    \/ StartThread
    \/ Join
    \/ Return
    \/ \E w \in Workers : StepPair(w)

SpecPair == InitPair /\ [][NextPair]_vars

\* the program saving one data file at a time in the caller's own thread, and
\* calling save_key once more on the object it has saved the key of
StepAgain(w) ==
    \/ LoadKeyFile(w)
    \/ LoadTokenDoc(w)
    \/ GetCsrfToken(w)
    \/ PostGetKey(w)
    \/ SaveKey(w)
    \/ PostSaveKey(w)
    \/ SaveKeyAgain(w)
    \/ Truncate(w)
    \/ WriteEnvelope(w)

NextAgain ==
    \/ SaveData
    \/ SaveDataReturns
    \/ \E w \in Workers : StepAgain(w)

SpecAgain == Init /\ [][NextAgain]_vars

\* the program started with a token document the API server no longer knows
InitLive ==
    /\ keyFile = NoKeyFile
    /\ tokenDoc = TokenDocOf(1)
    /\ envelope = [w \in Workers |-> EnvelopeOf("p2", 1, 1)]
    /\ escrow = [t \in 1..MaxTokens |-> 0]
    /\ InitProgram

\* the four entry points, batch or in the caller's own thread, with every
\* started thread and every waiting caller running on: a request is answered
\* or given up after its timeout, a join returns once its thread is over
NextLive ==
    \/ Call
    \/ StartThread
    \/ Join
    \/ Return
    \/ SaveData
    \/ SaveDataReturns
    \/ LoadData
    \/ LoadDataReturns
    \/ \E w \in Workers : Step(w)

SpecLive ==
    /\ InitLive
    /\ [][NextLive]_vars
    /\ \A w \in Workers : WF_vars(Step(w))
    /\ WF_vars(StartThread)
    /\ WF_vars(Join)
    /\ WF_vars(Return)
    /\ WF_vars(SaveDataReturns)
    /\ WF_vars(LoadDataReturns)

\* =================================================================== claims
Started(w) == th[w].pc # "idle"
Over(w) == th[w].pc = "done"

\* the step in which thread w leaves position p
Leaves(w, p) == th[w].pc = p /\ th'[w].pc # p

\* an existing envelope the claim C1 calls corrupt for an instance holding key
Corrupt(f, key) ==
    \/ Len(f.fields) # 2
    \/ \E i \in 1..Len(f.fields) : ~f.fields[i].b64
    \/ /\ Len(f.fields) = 2
       /\ \/ ~f.fields[1].tag
          \/ f.fields[1].k # key
          \/ f.fields[2].tag
          \/ f.fields[2].n = 0
          \/ f.fields[1].n # f.fields[2].n
          \/ f.fields[1].p \notin {"p1", "p2"}

\* C1: a load that finds an existing envelope file that is malformed, not
\* base64, not authentic under the instance key, or invalid for the schema
\* returns None, raises nothing, and the file is gone afterwards.
C1_CorruptImpliesDeleted ==
    [][\A w \in Workers :
          (Leaves(w, "decrypt") /\ envelope[w].exists /\ Corrupt(envelope[w], th[w].key))
          => /\ th'[w].pc = "done"
             /\ th'[w].result = "None"
             /\ th'[w].exec = "none"
             /\ ~envelope'[w].exists]_vars

C1_Witness ==
    \E w \in Workers :
        /\ Over(w) /\ th[w].fn = "load"
        /\ th[w].envBefore.exists
        /\ Len(th[w].envBefore.fields) = 2
        /\ ~validate_schema(th[w].envBefore.fields[1].p)
        /\ th[w].envBefore.fields[1].k = th[w].key
        /\ th[w].result = "None" /\ th[w].exec = "none"
        /\ ~envelope[w].exists

\* C2: a load by an instance holding key k of the envelope that the last
\* save wrote for a schema-valid payload p under the same key k returns
\* exactly p and leaves the file in place, whatever the save replaced.
C2_RoundTrip ==
    [][\A w \in Workers :
          (Leaves(w, "decrypt") /\ saved[w].k # 0 /\ saved[w].k = th[w].key
             /\ validate_schema(saved[w].p))
          => /\ th'[w].result = saved[w].p
             /\ th'[w].exec = "none"
             /\ envelope'[w] = envelope[w]
             /\ envelope'[w].exists]_vars

C2_Witness ==
    \E w \in Workers :
        /\ Over(w) /\ th[w].fn = "load"
        /\ saved[w].k = th[w].key /\ saved[w].p = "p1"
        /\ th[w].result = "p1"
        /\ th[w].envBefore = envelope[w]

\* C3: when the key file exists and holds exactly 32 bytes at key resolution,
\* the instance gets exactly those bytes and the resolution sends no request,
\* whatever the token document is.
C3_ResidentKeyAuthoritative ==
    [][\A w \in Workers :
          (Leaves(w, "ctor") /\ keyFile.exists /\ keyFile.len = KEY_LEN)
          => /\ th'[w].key = keyFile.k
             /\ th'[w].pc \in {"decrypt", "saveKey"}
             /\ th'[w].summ = th[w].summ
             /\ lastResp' = lastResp
             /\ <<tokenDoc, escrow>>' = <<tokenDoc, escrow>>]_vars

C3_Witness ==
    \E w \in Workers :
        /\ th[w].pc \in {"decrypt", "saveKey"}
        /\ keyFile.exists /\ keyFile.len = KEY_LEN /\ th[w].key = keyFile.k
        /\ tokenDoc.exists
        /\ th[w].summ = "none"


\* the step in which thread w receives the answer to a request
Hears(w, resp) ==
    /\ th[w].pc \in {"csrf", "csrfS", "getKey", "postKey"}
    /\ th'[w] # th[w]
    /\ lastResp'.w = w /\ lastResp'.resp = resp

\* C4: when POST /get-key answers 404, key resolution deletes the token
\* document, returns a freshly generated key and surfaces no error.
C4_StaleTokenRecovered ==
    [][\A w \in Workers :
          (th[w].pc = "getKey" /\ Hears(w, "s404"))
          => /\ ~tokenDoc'.exists
             /\ th'[w].exec = "none"
             /\ th'[w].pc \in {"decrypt", "saveKey"}
             /\ th'[w].key = nextKey
             /\ nextKey' = nextKey + 1]_vars

\* the save_cookies call returned and both entries had a thread
BatchReturned == mgr.st = "returned" /\ mgr.fn = "save_cookies" /\ Len(threads_arr) = 2

\* C5: in a batch save where the server failed every request of exactly one
\* thread b and answered every request of its sibling, the sibling is
\* reported successful with its envelope written and b is reported failed.
C5_BatchIsolation ==
    BatchReturned =>
        \A a, b \in Workers :
            (a # b /\ th[b].summ = "allfail" /\ th[a].summ \in {"none", "allok"})
            => /\ th[b].result = "False"
               /\ th[a].result = "True"
               /\ envelope[a].exists
               /\ saved[a] = [p |-> th[a].cookie, k |-> th[a].key]

\* C6: an exception stored by a thread is raised to the caller of
\* save_cookies / load_cookies only when every thread of the batch is over.
C6_RaisedAfterAllOver ==
    mgr.st = "raised" => \A w \in Workers : Started(w) => Over(w)

Restart(p) == IF p \in {"csrf", "getKey"} THEN "ctor" ELSE "saveKey"

RetryBudget(w, errors) ==
    /\ th'[w].retry <= MAX_RETRIES
    /\ th'[w].retry > th[w].retry =>
          /\ th'[w].retry = th[w].retry + 1
          /\ lastResp'.resp \in errors
          /\ Hears(w, lastResp'.resp)
    /\ (th[w].pc \in {"getKey", "postKey"} /\ Hears(w, "ok")) =>
          th'[w].pc = IF th[w].pc = "postKey" THEN "trunc"
                      ELSE IF th[w].fn = "load" THEN "decrypt" ELSE "saveKey"
    /\ (th[w].retry = MAX_RETRIES /\ Hears(w, "timeout")) =>
          /\ th'[w].pc = "done"
          /\ th'[w].result \in {"None", "False"}

C9_FailedSaveLeavesEnvelope ==
    \A w \in Workers :
        (th[w].fn = "save" /\ ~th[w].keySaved)
        => /\ envelope[w] = th[w].envBefore
           /\ th[w].result # "True"
           /\ (Over(w) /\ th[w].exec = "none") => th[w].result = "False"

C9_Witness ==
    \E w \in Workers :
        /\ Over(w) /\ th[w].fn = "save"
        /\ th[w].result = "False"
        /\ th[w].envBefore.exists
        /\ envelope[w] = th[w].envBefore

\* C10: all instances hold the same key, and every envelope written is
\* encrypted under that key.
C10_OneVaultKey ==
    /\ \A v, w \in Workers :
          (th[v].key # 0 /\ th[w].key # 0) => th[v].key = th[w].key
    /\ \A v, w \in Workers :
          (saved[v].k # 0 /\ saved[w].k # 0) => saved[v].k = saved[w].k

\* C11: started with neither file, the local key file and the token document
\* never exist both at once.
C11_OneAuthority == ~(keyFile.exists /\ tokenDoc.exists)

\* thread w is inside __load_key
Resolving(w) == th[w].pc \in {"ctor", "readTok", "csrf", "getKey"}

\* the step in which an attempt of w to resolve its key ends
AttemptEnds(w) ==
    /\ Resolving(w)
    /\ th'[w] # th[w]
    /\ th'[w].pc \notin {"readTok", "csrf", "getKey"}

\* C12: every key-resolution attempt ends, and ends either Resident (the
\* instance holds a key and no error was raised) or Fatal (an error was
\* raised and the instance holds no key); never with no key and no error.
C12_ResidentOrFatal ==
    /\ [][\A w \in Workers :
            AttemptEnds(w) =>
               \/ /\ th'[w].key \in 1..MaxKeys
                  /\ th'[w].exec = "none"
                  /\ th'[w].pc \in {"decrypt", "saveKey"}
               \/ /\ th'[w].key = 0
                  /\ th'[w].pc \in {"ctor", "done"}
                  /\ \/ th'[w].exec # "none"
                     \/ lastResp'.w = w /\ lastResp'.resp \in {"timeout", "s5xx", "badjson"}]_vars
    /\ \A w \in Workers : []<>~Resolving(w)

C12_Witness ==
    \E w \in Workers :
        /\ th[w].pc \in {"decrypt", "saveKey"}
        /\ th[w].key # 0
        /\ th[w].summ = "mixed"
        /\ lastResp.w = w /\ lastResp.resp = "ok"

\* C13: key resolution that finds a key file of another length than 32 bytes
\* goes on exactly as it does with no key file: the same next position with
\* no key taken from the file, no request sent, no file touched; the rest of
\* the resolution never looks at the key file again.
C13_ShortKeyFileIgnored ==
    [][\A w \in Workers :
          /\ (Leaves(w, "ctor") /\ keyFile.exists /\ keyFile.len # KEY_LEN)
                => /\ th'[w] = [th[w] EXCEPT !.pc = "readTok"]
                   /\ <<keyFile, tokenDoc, escrow, nextKey, lastResp>>' =
                         <<keyFile, tokenDoc, escrow, nextKey, lastResp>>
          /\ (Resolving(w) /\ th'[w] # th[w]) => keyFile' = keyFile]_vars

C13_Witness ==
    \E w \in Workers :
        /\ keyFile = ShortKeyFile
        /\ th[w].pc \in {"decrypt", "saveKey"}
        /\ th[w].key = 1
        /\ lastResp.w = w /\ lastResp.resp = "ok"

\* C14: token rotation: a 404 answer to POST /get-key makes the resolution
\* delete the token document and go on with a fresh key, and an accepted
\* POST /save-key writes a token document holding the token the server issued.
C14_TokenRotation ==
    [][\A w \in Workers :
          /\ (th[w].pc = "getKey" /\ Hears(w, "s404"))
                => /\ ~tokenDoc'.exists
                   /\ th'[w].exec = "none"
                   /\ th'[w].key = nextKey /\ nextKey' = nextKey + 1
          /\ (th[w].pc = "postKey" /\ Hears(w, "ok"))
                => /\ tokenDoc' = TokenDocOf(NextTok)
                   /\ escrow'[NextTok] = th[w].key]_vars

\* a load_cookies call has returned to its caller
LoadOver == mgr.st = "returned" /\ mgr.fn = "load_cookies"

TamperedUnder(f, key) ==
    /\ f.exists
    /\ Len(f.fields) = 2
    /\ LET ct == f.fields[1]
           nf == f.fields[2]
       IN  \/ ct = Tampered(chacha_encrypt(ct.p, key, ct.n)) /\ nf = NonceField(ct.n) /\ ct.n # 0
           \/ ct = chacha_encrypt(ct.p, key, ct.n) /\ nf = NonceField(nf.n) /\ nf.n \notin {0, ct.n}
           \/ ct = BadBase64 /\ nf = NonceField(nf.n) /\ nf.n # 0
           \/ ct = chacha_encrypt(ct.p, key, ct.n) /\ nf = BadBase64 /\ ct.n # 0

\* C16: a load that meets a valid envelope with its ciphertext or its nonce
\* tampered with returns None, never a payload, and deletes the file.
C16_TamperDetected ==
    [][\A w \in Workers :
          (Leaves(w, "decrypt") /\ TamperedUnder(envelope[w], th[w].key))
          => /\ th'[w].result = "None"
             /\ th'[w].exec = "none"
             /\ ~envelope'[w].exists]_vars

C16_Witness ==
    \E w \in Workers :
        /\ Over(w) /\ th[w].fn = "load"
        /\ th[w].key = 1
        /\ th[w].envBefore =
              [exists |-> TRUE,
               fields |-> <<Tampered(chacha_encrypt("p2", 1, 1)), NonceField(1)>>]
        /\ th[w].result = "None"
        /\ ~envelope[w].exists

\* the step in which thread w receives the answer to GET /csrf-token
HandshakeStep(w) == th[w].pc \in {"csrf", "csrfS"} /\ th'[w] # th[w]

\* C17: get_csrf_token returns the pair only for an answer of status 200 or
\* 404 whose JSON body carries csrf_token; after any other answer it raises
\* an error and the thread holds no pair.
C17_HandshakeAccepts ==
    [][\A w \in Workers :
          HandshakeStep(w) =>
             /\ lastResp'.w = w
             /\ ~(lastResp'.status \in {200, 404} /\ lastResp'.body = "token")
                   => /\ th'[w].csrf = "none"
                      /\ th'[w].pc \notin {"getKey", "postKey"}
                      /\ lastResp'.resp \in {"timeout", "s5xx", "badjson"}
             /\ (th'[w].csrf = "fresh" \/ th'[w].pc \in {"getKey", "postKey"})
                   => lastResp'.status \in {200, 404} /\ lastResp'.body = "token"]_vars

C17_Witness ==
    \E w \in Workers :
        /\ lastResp.w = w
        /\ lastResp.status = 404 /\ lastResp.body = "token"
        /\ th[w].csrf = "fresh"
        /\ th[w].pc \in {"getKey", "postKey"}

\* C18: a thread comes to a POST only by a successful handshake of its own,
\* the POST uses up the pair that handshake returned, and the thread sends
\* no second POST without a new handshake.
C18_HandshakeBeforePost ==
    [][\A w \in Workers :
          /\ (th'[w].pc \in {"getKey", "postKey"} /\ th'[w] # th[w])
                => /\ th[w].pc = IF th'[w].pc = "getKey" THEN "csrf" ELSE "csrfS"
                   /\ Hears(w, "ok")
                   /\ th[w].csrf = "none" /\ th'[w].csrf = "fresh"
          /\ (th[w].pc \in {"getKey", "postKey"} /\ th'[w] # th[w] /\ th'[w].pc # "idle")
                => /\ th[w].csrf = "fresh" /\ th'[w].csrf = "none"
                   /\ lastResp'.w = w]_vars

C18_Witness ==
    \E w \in Workers :
        /\ th[w].pc = "trunc"
        /\ th[w].retry = 2
        /\ th[w].csrf = "none"
        /\ lastResp.w = w /\ lastResp.resp = "ok"

\* the next step of thread v reads or writes the key file / the token document
AccessesKeyFile(v) == th[v].pc \in {"ctor", "saveKey"}
AccessesTokenDoc(v) == th[v].pc \in {"readTok", "saveKey", "getKey", "postKey"}

\* C19: no thread writes a file that another running thread of the batch is
\* about to read or write.
C19_NoSharedMutableState ==
    [][\A w \in Workers :
          (Started(w) /\ th'[w] # th[w]) =>
             \A v \in Workers \ {w} :
                /\ keyFile' # keyFile => ~AccessesKeyFile(v)
                /\ tokenDoc' # tokenDoc => ~AccessesTokenDoc(v)]_vars

\* C20: a load whose key resolution failed is not reported with the value
\* that stands for an absent or corrupt file.
C20_FailureDistinctFromAbsent ==
    \A w \in Workers :
        (Over(w) /\ th[w].fn = "load" /\ th[w].key = 0 /\ th[w].exec = "none")
        => th[w].result # "None"

\* the step in which load_and_decrypt_data is called for the data file of w
CallsLoadAndDecrypt(w) ==
    /\ mgr.st # "load_data"
    /\ mgr' # mgr
    /\ mgr'.fn = "load_and_decrypt_data" /\ mgr'.i = w

\* the step in which load_and_decrypt_data returns what load_data returned
LoadAndDecryptReturns(w) ==
    /\ mgr.fn = "load_and_decrypt_data" /\ mgr.i = w
    /\ mgr.st = "load_data" /\ mgr'.st = "returned"

\* C21: load_and_decrypt_data returns False exactly when the data file does
\* not exist when it is called, and then resolves no key and touches no file;
\* for a file that exists but cannot be decrypted or validated it returns None.
C21_FalseIffAbsent ==
    [][\A w \in Workers :
          /\ CallsLoadAndDecrypt(w) =>
                /\ (lastLoad'[w] = "False") <=> ~envelope[w].exists
                /\ (lastLoad'[w] = "False") =>
                      /\ mgr'.st = "returned"
                      /\ \A v \in Workers : th'[v].pc = "idle"
                      /\ lastResp' = NoResp
                      /\ <<keyFile, tokenDoc, envelope, escrow, nextKey>>' =
                            <<keyFile, tokenDoc, envelope, escrow, nextKey>>
                /\ (lastLoad'[w] # "False") => mgr'.st = "load_data" /\ th'[w].pc = "ctor"
          /\ LoadAndDecryptReturns(w) =>
                /\ lastLoad'[w] # "False"
                /\ (th[w].key # 0 /\ Corrupt(th[w].envBefore, th[w].key))
                      => lastLoad'[w] = "None"]_vars

C21_Witness ==
    /\ mgr.fn = "load_and_decrypt_data" /\ mgr.st = "returned"
    /\ th[mgr.i].envBefore.exists
    /\ th[mgr.i].key # 0
    /\ Corrupt(th[mgr.i].envBefore, th[mgr.i].key)
    /\ lastLoad[mgr.i] = "None"
    /\ \E v \in Workers : lastLoad[v] = "False"

\* C22: a permission error while a load deletes a corrupt cookie file is
\* swallowed (the load returns None and raises nothing), and a permission
\* error while a save opens the cookie file for writing is raised.
C22_PermissionErrors ==
    [][\A w \in Workers :
          /\ (Leaves(w, "decrypt") /\ envelope[w].exists /\ Corrupt(envelope[w], th[w].key))
                => /\ th'[w].result = "None"
                   /\ th'[w].exec = "none"
          /\ (Leaves(w, "trunc") /\ th'[w].pc # "write")
                => /\ th'[w].pc = "done"
                   /\ th'[w].exec = "PermissionError"
                   /\ th'[w].result # "True"
                   /\ envelope'[w] = envelope[w]]_vars

\* file f holds one whole envelope: base64(ciphertext) "." base64(nonce)
WholeEnvelope(f) ==
    /\ Len(f.fields) = 2
    /\ f.fields[1].k # 0
    /\ f = EnvelopeOf(f.fields[1].p, f.fields[1].k, f.fields[1].n)

\* C23: in every reachable state, between any two steps of a save as well, a
\* cookie file is absent or holds one whole envelope (the one before the save
\* or the new one), never an empty or a partial one.
C23_WholeFileWrites ==
    \A w \in Workers :
        envelope[w].exists =>
            /\ WholeEnvelope(envelope[w])
            /\ th[w].fn = "save" =>
                  \/ envelope[w] = th[w].envBefore
                  \/ envelope[w] = EnvelopeOf(th[w].cookie, th[w].key, FreshNonce(th[w]))

\* C24: a load (decrypt_data) of a data file that does not exist returns None,
\* raises nothing and changes nothing on disk: the file is not created and
\* neither the key file nor the token document nor another data file changes.
C24_AbsentLoadChangesNothing ==
    [][\A w \in Workers :
          (Leaves(w, "decrypt") /\ ~envelope[w].exists)
          => /\ th'[w].pc = "done"
             /\ th'[w].result = "None"
             /\ th'[w].exec = "none"
             /\ <<keyFile, tokenDoc, envelope, saved>>' = <<keyFile, tokenDoc, envelope, saved>>]_vars

C24_Witness ==
    \E w \in Workers :
        /\ mgr.fn = "load_data" /\ mgr.st = "returned" /\ mgr.i = w
        /\ ~th[w].envBefore.exists
        /\ th[w].key # 0
        /\ lastLoad[w] = "None"
        /\ ~envelope[w].exists
        /\ \E v \in Workers \ {w} : envelope[v].exists

\* C25: save_key sends a request to the escrow service only when it was
\* called with save_locally false while the key file did not hold the
\* instance's key and no token document existed; a thread comes to POST
\* /save-key only that way.
C25_PostOnlyForRemoteEscrow ==
    [][\A w \in Workers :
          /\ Leaves(w, "saveKey") =>
                /\ th'[w].pc \in {"csrfS", "trunc"}
                /\ (th'[w].pc = "csrfS") <=>
                      /\ ~th[w].save_locally
                      /\ ~(keyFile.exists /\ keyFile.len = KEY_LEN /\ keyFile.k = th[w].key)
                      /\ ~tokenDoc.exists
                /\ th'[w].summ = th[w].summ
                /\ lastResp' = lastResp
          /\ (th'[w].pc = "csrfS" /\ th[w].pc # "csrfS") => th[w].pc = "saveKey"
          /\ (th'[w].pc = "postKey" /\ th[w].pc # "postKey") => th[w].pc = "csrfS"
          /\ (th[w].pc \in {"csrfS", "postKey"}) => ~th[w].save_locally
          /\ (escrow' # escrow) =>
                \E v \in Workers : th[v].pc = "postKey" /\ ~th[v].save_locally /\ th'[v] # th[v]]_vars

C25_Witness ==
    \E v, w \in Workers :
        /\ th[w].pc = "trunc" /\ th[w].save_locally /\ th[w].summ = "none"
        /\ keyFile.k = th[w].key
        /\ th[v].pc = "trunc" /\ ~th[v].save_locally /\ th[v].summ = "allok"
        /\ tokenDoc.exists /\ escrow[tokenDoc.t] = th[v].key

\* data d is the key token, the vault key or a private key, sent as it is
Exposed(d) == d.form = "raw" /\ d.kind \in {"key_id_token", "secret_key", "private_key"}

\* C26: no request to the API server carries the vault key, the key token or
\* the private key as it is: key_id_token and secret_key are RSA-wrapped and
\* of the key pair only the public key is sent; and what is written to disk is
\* a vault key, a token or an envelope, never the private key.
C26_NoRawSecretOnWire ==
    /\ [](LET r == lastResp.req IN
            /\ ~Exposed(r.client_public_key)
            /\ ~Exposed(r.value)
            /\ r.client_public_key \in {NoData} \cup {PublicKeyOf(i) : i \in 0..(MaxThreads * MAX_RETRIES)}
            /\ r.path = "/csrf-token" => r.value = NoData /\ r.client_public_key = NoData
            /\ r.path = "/get-key" =>
                  /\ r.field = "key_id_token"
                  /\ r.value.form = "rsa" /\ r.value.kind = "key_id_token"
            /\ r.path = "/save-key" =>
                  /\ r.field = "secret_key"
                  /\ r.value.form = "rsa" /\ r.value.kind = "secret_key")
    /\ [][/\ (th' # th /\ \E w \in Workers : th[w].pc \in {"csrf", "csrfS", "getKey", "postKey"} /\ th'[w] # th[w])
                => lastResp'.req.path # ""
          /\ keyFile' # keyFile =>
                \E w \in Workers : th[w].pc = "saveKey" /\ keyFile' = KeyFileOf(th[w].key)
          /\ tokenDoc' # tokenDoc =>
                tokenDoc' \in {NoTokenDoc} \cup {TokenDocOf(t) : t \in 1..MaxTokens}
          /\ \A w \in Workers :
                envelope'[w] # envelope[w] =>
                   \/ envelope'[w] \in {NoEnvelope, TruncatedEnvelope}
                   \/ envelope'[w] = EnvelopeOf(th[w].cookie, th[w].key, FreshNonce(th[w]))]_vars

C26_Witness ==
    \E w \in Workers :
        /\ lastResp.w = w /\ lastResp.resp = "ok"
        /\ lastResp.req.path = "/save-key"
        /\ lastResp.req.value = [form |-> "rsa", kind |-> "secret_key", n |-> th[w].key]
        /\ lastResp.req.client_public_key = PublicKeyOf(th[w].pair)
        /\ th[w].key # 0
        /\ tokenDoc.exists /\ escrow[tokenDoc.t] = th[w].key

\* a later process finds key k: in key file kf, or by the token of token
\* document td in the escrow es of the API server
Recoverable(k, kf, td, es) ==
    \/ KeyFileUsable(kf) /\ kf.k = k
    \/ TokenUsable(td) /\ es[td.t] = k

\* C27: when save_data returns True, the key the envelope was written under
\* is in the key file, or the token document holds a token that the API
\* server maps to that key.
C27_SavedKeyRecoverable ==
    [][\A w \in Workers :
          (th[w].fn = "save" /\ th[w].result # "True" /\ th'[w].result = "True")
          => /\ saved'[w].k = th[w].key
             /\ Recoverable(th[w].key, keyFile', tokenDoc', escrow')]_vars

\* C28: in a batch of several workers, every worker that receives 404 for
\* the token of the token document goes on with a fresh key, leaves no token
\* document behind and ends with no exception.
C28_StaleTokenConcurrent ==
    [][\A w \in Workers :
          (/\ th[w].pc = "getKey"
           /\ Hears(w, "s404")
           /\ \E v \in Workers \ {w} : inputs[v].present)
          => /\ th'[w].exec = "none"
             /\ th'[w].key \in 2..MaxKeys
             /\ th'[w].pc \in {"decrypt", "saveKey"}
             /\ ~tokenDoc'.exists]_vars

\* key resolution at its test of the token document, the token document
\* counting as present when present(tokenDoc): with one present the thread
\* takes its token and goes to the handshake and sends nothing before it;
\* with none the thread gets a fresh key and sends no request; POST /get-key
\* is sent only after the handshake; and a key is generated only at that
\* test with no token document, or on a 404 answer to POST /get-key.
CheckToken(w, present) ==
    /\ Leaves(w, "readTok") =>
          /\ lastResp' = lastResp
          /\ th'[w].summ = th[w].summ
          /\ <<keyFile, tokenDoc, escrow>>' = <<keyFile, tokenDoc, escrow>>
          /\ IF present
             THEN /\ th'[w].pc = "csrf"
                  /\ th'[w].tok = tokenDoc.t
                  /\ th'[w].key = 0
                  /\ nextKey' = nextKey
             ELSE /\ th'[w].pc \in {"decrypt", "saveKey"}
                  /\ th'[w].key = nextKey
                  /\ nextKey' = nextKey + 1
    /\ (th'[w].pc = "getKey" /\ th[w].pc # "getKey") =>
          th[w].pc = "csrf" /\ Hears(w, "ok")
    /\ (th'[w] # th[w] /\ nextKey' # nextKey) =>
          \/ th[w].pc = "readTok" /\ ~present
          \/ th[w].pc = "getKey" /\ Hears(w, "s404")

\* C29: with no valid key file, key resolution attempts the fetch when a
\* token document file is present and generates a fresh key with no network
\* exchange when none is present.
C29_CheckTokenPresent ==
    [][\A w \in Workers : CheckToken(w, tokenDoc.exists)]_vars

\* C29 as amended: the fetch is attempted when the token document is present,
\* is JSON and satisfies the KeyIdToken schema; a fresh key is generated with
\* no network exchange when the token document is absent or is not such a one.
C29_CheckTokenUsable ==
    [][\A w \in Workers : CheckToken(w, tokenDoc.exists /\ tokenDoc.valid)]_vars

C29_Witness ==
    \E w \in Workers :
        /\ tokenDoc = BadTokenDoc
        /\ ~KeyFileUsable(keyFile)
        /\ th[w].pc \in {"decrypt", "saveKey"}
        /\ th[w].key = 2
        /\ th[w].summ = "none"

\* the attempt of w to fetch its key ends in failure: no key, and an error
\* raised out of __load_key (caught by the retry loop or stored by the thread)
FetchFatal(w) ==
    /\ th'[w].key = 0
    /\ th'[w].pc \in {"ctor", "done"}
    /\ th'[w].pc = "ctor" => th'[w].retry = th[w].retry + 1
    /\ th'[w].pc = "done" => th'[w].exec # "none" \/ th'[w].result \in {"None", "False"}

BatchReturnedNormally ==
    mgr.st = "returned" /\ mgr.fn \in {"save_cookies", "load_cookies"}

\* run() of thread w assigned self.result and stored no exception
ResultSet(w) ==
    /\ th[w].pc = "done"
    /\ th[w].exec = "none"
    /\ th[w].fn = "save" => th[w].result \in {"True", "False"}
    /\ th[w].fn = "load" => th[w].result \in {"None", "p1", "p2"}

\* C31: when save_cookies or load_cookies has returned normally, every thread
\* it started is in threads_arr, has ended run() and has its result assigned
\* with no exception stored; the call does not return while a thread runs.
C31_ReturnAfterAllWorkers ==
    BatchReturnedNormally =>
        /\ \A w \in Workers : Started(w) => \E i \in 1..Len(threads_arr) : threads_arr[i] = w
        /\ \A i \in 1..Len(threads_arr) : ResultSet(threads_arr[i])

C31_Witness ==
    /\ BatchReturnedNormally
    /\ mgr.fn = "save_cookies"
    /\ Len(threads_arr) = 2
    /\ th[1].result = "True"
    /\ th[2].result = "False"

\* the call has left its first loop
StartLoopOver == mgr.st \in {"join", "returned", "raised"} /\ mgr.fn \in {"save_cookies", "load_cookies"}

\* entry w of the running call asks for a thread: a 3-tuple for save_cookies,
\* a website whose cookie file was there when the call looked for load_cookies
\* (no load creates a cookie file, and only thread w removes the one of w)
AsksForThread(w) ==
    /\ inputs[w].present
    /\ mgr.fn = "load_cookies" => (IF Started(w) THEN th[w].envBefore.exists ELSE envelope[w].exists)

\* C32: save_cookies starts exactly one thread for every login result that is
\* a 3-tuple and none for any other entry; load_cookies starts exactly one
\* thread for every website whose cookie file exists and none for a website
\* without a file, for which no key resolution is run either.
C32_OneWorkerPerEligibleInput ==
    /\ [](mgr.fn \in {"save_cookies", "load_cookies"} =>
            /\ \A w \in Workers : Started(w) => AsksForThread(w)
            /\ \A i, j \in 1..Len(threads_arr) : threads_arr[i] = threads_arr[j] => i = j
            /\ \A w \in Workers : Started(w) <=> \E i \in 1..Len(threads_arr) : threads_arr[i] = w
            /\ StartLoopOver => \A w \in Workers : AsksForThread(w) => Started(w))
    /\ [][(mgr.st = "start" /\ mgr' # mgr) =>
            LET i == mgr.i
                file == mgr.fn = "load_cookies" => envelope[i].exists IN
            IF inputs[i].present /\ file
            THEN /\ threads_arr' = Append(threads_arr, i)
                 /\ th'[i].pc = "ctor"
                 /\ \A v \in Workers \ {i} : th'[v] = th[v]
            ELSE /\ threads_arr' = threads_arr
                 /\ th' = th]_vars

C32_Witness ==
    /\ mgr.fn = "load_cookies"
    /\ mgr.st = "join"
    /\ inputs[1].present /\ inputs[2].present
    /\ ~envelope[1].exists /\ th[1] = IdleThread
    /\ threads_arr = <<2>>
    /\ th[2].pc = "decrypt"

\* thread w enters __load_key in this step: a UserData object is constructed
EntersLoadKey(w) == th'[w].pc = "ctor" /\ th'[w] # th[w]

OperationStep(w) == th[w].pc \notin {"idle", "done"} /\ th'[w] # th[w]

\* C34: a step of save_data or load_data for one website leaves the cookie
\* file of every other website as it was, in every interleaving of a batch;
\* a cookie file changes only in a step of the thread of its own website.
C34_OtherEnvelopesUntouched ==
    [][/\ \A w \in Workers :
             OperationStep(w) => \A v \in Workers \ {w} : envelope'[v] = envelope[v]
       /\ \A v \in Workers :
             envelope'[v] # envelope[v] =>
                /\ OperationStep(v)
                /\ th[v].pc \in {"decrypt", "trunc", "write"}]_vars

C34_Witness ==
    /\ mgr.fn = "save_cookies"
    /\ th[2].pc = "done" /\ th[2].result = "True"
    /\ envelope[2] = EnvelopeOf(th[2].cookie, th[2].key, FreshNonce(th[2]))
    /\ th[1].pc = "saveKey"
    /\ envelope[1].exists
    /\ envelope[1] = th[1].envBefore

\* the step in which thread w constructs its UserData object
Constructs(w) == th[w].pc = "ctor" /\ th'[w] # th[w]

\* C35: at the construction of a vault object a client digest preference held
\* by the configuration is used as it is and the configuration is left alone;
\* without one the preference becomes sha512 on a 64-bit platform and sha256
\* otherwise and is written to the configuration; the server digest method is
\* sha512 exactly when the client digest method is sha512, else sha256; the
\* object keeps both for the rest of its life.
C35_DigestSelection ==
    [][\A w \in Workers :
          /\ Constructs(w) =>
                LET held == configs.exists /\ configs.client_digest_method # "None"
                    t == th'[w] IN
                /\ held => /\ t.client_digest_method = configs.client_digest_method
                           /\ configs' = configs
                /\ ~held => /\ t.client_digest_method = (IF IS_64BITS THEN "sha512" ELSE "sha256")
                            /\ configs' = [exists |-> TRUE, client_digest_method |-> t.client_digest_method]
                /\ t.server_digest_method \in {"sha256", "sha512"}
                /\ t.server_digest_method = "sha512" <=> t.client_digest_method = "sha512"
          /\ (th[w].pc \notin {"idle", "ctor"} /\ th'[w].pc # "idle") =>
                /\ th'[w].client_digest_method = th[w].client_digest_method
                /\ th'[w].server_digest_method = th[w].server_digest_method
          /\ (\A v \in Workers : ~(th[v].pc = "ctor" /\ th'[v] # th[v])) => configs' = configs]_vars

C35_Witness ==
    /\ IS_64BITS
    /\ configs = ConfigsOf("sha256")
    /\ th[1].pc = "saveKey"
    /\ th[1].client_digest_method = "sha256"
    /\ th[1].server_digest_method = "sha256"

\* C36: every POST of an object carries the public key of the key pair that
\* was generated when that object was constructed, and the field of the answer
\* is unwrapped with the private key of the same pair; every construction,
\* also one made by a retry, generates a pair of its own, which the object
\* keeps.
C36_OneKeyPairPerObject ==
    [][\A w \in Workers :
          /\ (th[w].pc \in {"getKey", "postKey"} /\ th'[w] # th[w]) =>
                LET a == lastResp' IN
                /\ a.w = w
                /\ a.req.path = (IF th[w].pc = "getKey" THEN "/get-key" ELSE "/save-key")
                /\ th[w].pair # 0
                /\ a.req.client_public_key = [form |-> "pem", kind |-> "public_key", n |-> th[w].pair]
                /\ a.private_key # NoData <=> a.resp \in {"ok", "badwrap"}
                /\ a.private_key # NoData =>
                      a.private_key = [form |-> "raw", kind |-> "private_key",
                                       n |-> a.req.client_public_key.n]
          /\ Constructs(w) =>
                /\ th'[w].pair # 0
                /\ th'[w].pair # th[w].pair
                /\ \A v \in Workers \ {w} : th'[w].pair # th[v].pair
          /\ (th[w].pc \notin {"idle", "ctor"} /\ th'[w].pc # "idle") => th'[w].pair = th[w].pair]_vars

C36_Witness ==
    /\ lastResp.w = 1 /\ lastResp.resp = "ok"
    /\ lastResp.req.path = "/save-key"
    /\ th[1].pair = 2
    /\ lastResp.req.client_public_key = PublicKeyOf(2)
    /\ lastResp.private_key = PrivateKeyOf(2)
    /\ th[1].pc = "trunc"

\* the step in which save_key is called a second time for the object of w
SecondSaveKey(w) == th[w].again = "none" /\ th'[w].again # "none"

\* C37: once save_key has returned for an object, a second save_key on the
\* same object, with either value of save_locally and with nothing else
\* running between the two calls, returns early: it writes neither the key
\* file nor the token document and sends no request.
C37_SaveKeyIdempotent ==
    /\ [][\A w \in Workers :
             SecondSaveKey(w) =>
                /\ th'[w] = [th[w] EXCEPT !.again = "returned"]
                /\ keyFile' = keyFile
                /\ tokenDoc' = tokenDoc
                /\ lastResp' = lastResp
                /\ escrow' = escrow
                /\ envelope' = envelope]_vars
    /\ [](\A w \in Workers : th[w].again \in {"none", "returned"})

C37_Witness ==
    /\ th[1].again = "returned"
    /\ th[1].pc = "trunc"
    /\ ~th[1].save_locally
    /\ lastResp.w = 1 /\ lastResp.resp = "ok"
    /\ ~KeyFileUsable(keyFile)
    /\ tokenDoc = TokenDocOf(2)
    /\ escrow[2] = th[1].key

\* no call of save_data, load_data, save_cookies or load_cookies is under way
NoCallUnderWay == mgr.st \in {"idle", "returned", "raised"}

\* C38: every call of save_data, load_data, save_cookies and load_cookies
\* returns or raises in the end, given that every request is answered or
\* times out: the retry loops are bounded and the joins complete.
C38_CallsTerminate == []<>NoCallUnderWay

C38_Witness ==
    /\ mgr.st = "returned"
    /\ mgr.fn = "save_cookies"
    /\ Len(threads_arr) = 2
    /\ th[1].pc = "done" /\ th[1].result = "False" /\ th[1].summ = "allfail"
    /\ th[2].pc = "done" /\ th[2].result = "True"

====
